---- MODULE Spec2Model ----
(***************************************************************************)
(* A model of loom's table / field graph: the builder context              *)
(* (CURRENT_TABLE_CONTEXT), tables and their ordered field dictionaries,   *)
(* field objects, the expression resolver (get_fields_from_expr) and the   *)
(* lineage walk (get_lineage).                                             *)
(*                                                                         *)
(* Objects are identified by where they live: tables[t] is the t-th table   *)
(* constructed, and a field object is the i-th value of the _fields dict   *)
(* of the table it registered with (a dict entry is never replaced or      *)
(* removed, so the place identifies the object).  A Python exception is    *)
(* the "err" component of the record an operation returns; "" means the    *)
(* call returned normally.                                                 *)
(***************************************************************************)
EXTENDS Integers, Sequences, FiniteSets, TLC

\* ------------------------------------------------------------------ bounds
MaxTables == 2
MaxFields == 2
MaxPlaceholders == 1
MaxSources == 1

\* Table aliases and physical field names the callers draw from.
Aliases == {"a", "b"}
\* "describe" is also the name of a method of BaseTable (tables.py:66).
Names == {"f", "describe"}

\* Names that normal attribute lookup finds on a table object, so that
\* getattr never falls through to BaseTable.__getattr__ for them.
TableAttributes == {"describe"}

\* A parsed expression: the placeholders {alias.field} that
\* string.Formatter.parse yields, in order of appearance.
Placeholders == Aliases \X Names
Expressions == UNION {[1..n -> Placeholders] : n \in 0..MaxPlaceholders}

\* Lists of already constructed tables handed to DerivedTable(...).
SourceLists(n) == UNION {[1..k -> 1..n] : k \in 0..MaxSources}

VARIABLES
    CURRENT_TABLE_CONTEXT,  \* fields.py:10, a list of tables
    tables,                 \* the table objects, in order of construction
    closed,                 \* tables whose scope has been exited at least once
    ret                     \* the exception the last call raised, if any

vars == <<CURRENT_TABLE_CONTEXT, tables, closed, ret>>

\* ----------------------------------------------------- values and helpers
NoObjects == {}

\* References to objects: the i-th field registered with table t, and the
\* bound method t.describe.
FieldObj(t, i) == [type |-> "field", table |-> t, idx |-> i]
MethodObj(t) == [type |-> "method", table |-> t, idx |-> 0]

Ok(val) == [err |-> "", key |-> "", val |-> val]
Raise(err, key) == [err |-> err, key |-> key, val |-> NoObjects]

\* An insertion-ordered dict str -> field, as a sequence of <<key, value>>.
Keys(d) == {d[i][1] : i \in DOMAIN d}
Index(d, k) == CHOOSE i \in DOMAIN d : d[i][1] = k

\* What the state keeps of the last call: the class of the exception it
\* raised, "" when it returned normally.
Return(r) == r.err

\* ----------------------------------------------------------------- tables
\* _groupby exists on a DerivedTable only (tables.py:120); on a raw table
\* the component stays empty and no operation reads it.
BaseTable(kind, alias, sources) ==
    [kind |-> kind, _alias |-> alias, _sources |-> sources, _fields |-> <<>>,
     _groupby |-> {}]

\* {t._alias: t for t in sources}: a later table replaces an earlier one
\* registered under the same alias.
_process_sources(tbls, srcs) ==
    LET as == {tbls[srcs[i]]._alias : i \in DOMAIN srcs}
        last(a) == CHOOSE i \in DOMAIN srcs :
                      /\ tbls[srcs[i]]._alias = a
                      /\ \A j \in DOMAIN srcs : tbls[srcs[j]]._alias = a => j <= i
    IN  [a \in as |-> srcs[last(a)]]

\* BaseTable.__getitem__
getitem(tbls, t, key) ==
    IF key \notin Keys(tbls[t]._fields)
    THEN Raise("UndefinedFieldException", key)
    ELSE Ok({FieldObj(t, Index(tbls[t]._fields, key))})

\* getattr(table, name) as string.Formatter.get_field performs it: normal
\* attribute lookup first, BaseTable.__getattr__ only when that fails.
getattr(tbls, t, name) ==
    IF name \in TableAttributes
    THEN Ok({MethodObj(t)})
    ELSE getitem(tbls, t, name)

\* DerivedTable.get_source
get_source(tbls, t, key) ==
    IF key \notin DOMAIN tbls[t]._sources
    THEN Raise("UnregisteredSourceException", key)
    ELSE Ok({tbls[t]._sources[key]})

\* add_field with the duplicate test moved after the assignment: the entry
\* is replaced before the exception is raised.
add_field_check_after(tbls, t, field) ==
    IF field._pname \in Keys(tbls[t]._fields)
    THEN [err |-> "DuplicatedFieldException", table |-> t, field |-> field,
          tables |-> [tbls EXCEPT ![t]._fields[Index(tbls[t]._fields, field._pname)] =
                            <<field._pname, field>>]]
    ELSE [err |-> "", table |-> t, field |-> field,
          tables |-> [tbls EXCEPT ![t]._fields = Append(@, <<field._pname, field>>)]]

\* add_field without the duplicate test: a plain dict assignment.
add_field_overwrite(tbls, t, field) ==
    IF field._pname \in Keys(tbls[t]._fields)
    THEN [err |-> "", table |-> t, field |-> field,
          tables |-> [tbls EXCEPT ![t]._fields[Index(tbls[t]._fields, field._pname)] =
                            <<field._pname, field>>]]
    ELSE [err |-> "", table |-> t, field |-> field,
          tables |-> [tbls EXCEPT ![t]._fields = Append(@, <<field._pname, field>>)]]

\* BaseTable.add_field(field)
add_field(tbls, t, field) ==
    IF field._pname \in Keys(tbls[t]._fields)
    THEN [err |-> "DuplicatedFieldException", table |-> t, field |-> field,
          tables |-> tbls]
    ELSE [err |-> "", table |-> t, field |-> field,
          tables |-> [tbls EXCEPT ![t]._fields = Append(@, <<field._pname, field>>)]]

\* set_table without the emptiness test: CURRENT_TABLE_CONTEXT[0] raises.
set_table_unchecked(ctx, tbls, field) ==
    IF Len(ctx) = 0
    THEN [err |-> "IndexError", table |-> 0, field |-> field, tables |-> tbls]
    ELSE add_field(tbls, ctx[1], field)

\* BaseField.set_table: what it raises or the table it returns, and the
\* tables after the call.
set_table(ctx, tbls, field) ==
    IF Len(ctx) = 0
    THEN [err |-> "NoTableContextSetException", table |-> 0, field |-> field,
          tables |-> tbls]
    ELSE add_field(tbls, ctx[1], field)

\* self._table = self.set_table(): the registered object gets its owner.
bind(tbls, t, pname) ==
    [tbls EXCEPT ![t]._fields[Index(tbls[t]._fields, pname)][2]._table = t]

\* ------------------------------------------------------------------ fields
\* string.Formatter.get_field(field_name, [], context) for "alias.name":
\* context[alias], then getattr of the result.
get_field(tbls, context, ph) ==
    IF ph[1] \notin DOMAIN context
    THEN Raise("KeyError", ph[1])
    ELSE getattr(tbls, context[ph[1]], ph[2])

RECURSIVE resolve_from(_, _, _, _, _)
resolve_from(tbls, context, expression, i, acc) ==
    IF i > Len(expression)
    THEN Ok(acc)
    ELSE LET r == get_field(tbls, context, expression[i])
         IN  IF r.err # ""
             THEN r
             ELSE resolve_from(tbls, context, expression, i + 1, acc \cup r.val)

\* get_fields_from_expr(expression, context)
get_fields_from_expr(tbls, expression, context) ==
    resolve_from(tbls, context, expression, 1, NoObjects)

\* A field object inside BaseField.__init__, before set_table has returned:
\* _pname is set, _table is not (0).
BaseField(cls, pname) ==
    [cls |-> cls, _pname |-> pname, _table |-> 0,
     _expression |-> <<>>, has_sources |-> FALSE, _sources |-> NoObjects]

\* The object a reference denotes.
Deref(tbls, o) == tbls[o.table]._fields[o.idx][2]

\* derived_sources in which a table is registered as a source of itself under
\* its own alias, so that an expression can name the table's own fields.
derived_sources_with_self(tbls, t, expression) ==
    IF tbls[t].kind = "raw"
    THEN Raise("UndefinedFieldException", "_sources")
    ELSE get_fields_from_expr(tbls, expression,
            [a \in DOMAIN tbls[t]._sources \cup {tbls[t]._alias} |->
                IF a = tbls[t]._alias THEN t ELSE tbls[t]._sources[a]])

\* DerivedField.__init__ after BaseField.__init__ returned: reads
\* self._table._sources and resolves the expression against it.
derived_sources(tbls, t, expression) ==
    IF tbls[t].kind = "raw"
    THEN \* a RawTable has no _sources: __getattr__ -> __getitem__("_sources")
         Raise("UndefinedFieldException", "_sources")
    ELSE get_fields_from_expr(tbls, expression, tbls[t]._sources)

\* o.get_sources()
get_sources(tbls, o) ==
    IF o.type # "field" THEN Raise("AttributeError", "get_sources")
    ELSE IF Deref(tbls, o).cls = "RawField" THEN Ok({o})
    ELSE IF ~Deref(tbls, o).has_sources THEN Raise("AttributeError", "_sources")
    ELSE Ok(Deref(tbls, o)._sources)

\* get_lineage; for a derived field the loop over self._sources, which ends
\* at the first source whose get_lineage raises.
RECURSIVE get_lineage(_, _)
RECURSIVE lineage_loop(_, _, _)
lineage_loop(tbls, todo, lineage) ==
    IF todo = {}
    THEN Ok(lineage)
    ELSE LET o == CHOOSE x \in todo : TRUE
             r == get_lineage(tbls, o)
         IN  IF r.err # ""
             THEN r
             ELSE lineage_loop(tbls, todo \ {o}, lineage \cup r.val)

\* o.get_lineage() for any object o that ended up in a _sources set.
get_lineage(tbls, o) ==
    IF o.type # "field" THEN Raise("AttributeError", "get_lineage")
    ELSE IF Deref(tbls, o).cls = "RawField" THEN Ok({o})
    ELSE IF ~Deref(tbls, o).has_sources THEN Raise("AttributeError", "_sources")
    ELSE lineage_loop(tbls, Deref(tbls, o)._sources, NoObjects)

\* Every field object some table holds, and how many there are.
AllFields(tbls) ==
    UNION {{FieldObj(t, i) : i \in DOMAIN tbls[t]._fields} : t \in DOMAIN tbls}

RECURSIVE CountFields(_, _)
CountFields(tbls, t) ==
    IF t = 0 THEN 0 ELSE Len(tbls[t]._fields) + CountFields(tbls, t - 1)

NumFields(tbls) == CountFields(tbls, Len(tbls))

\* ----------------------------------------------------------------- actions
Init ==
    /\ CURRENT_TABLE_CONTEXT = <<>>
    /\ tables = <<>>
    /\ closed = {}
    /\ ret = Return(Ok(NoObjects))

\* RawTable(schema, pname, alias=alias)
NewRawTable ==
    \E alias \in Aliases :
        /\ Len(tables) < MaxTables
        /\ tables' = Append(tables, BaseTable("raw", alias, <<>>))
        /\ ret' = Return(Ok(NoObjects))
        /\ UNCHANGED <<CURRENT_TABLE_CONTEXT, closed>>

\* DerivedTable(schema, pname, sources, from_expression, alias=alias)
NewDerivedTable ==
    \E alias \in Aliases, srcs \in SourceLists(Len(tables)) :
        /\ Len(tables) < MaxTables
        /\ tables' = Append(tables,
                BaseTable("derived", alias, _process_sources(tables, srcs)))
        /\ ret' = Return(Ok(NoObjects))
        /\ UNCHANGED <<CURRENT_TABLE_CONTEXT, closed>>

\* __enter__ that takes over an occupied context instead of raising.
enter_replace(ctx, t) ==
    [err |-> "", ctx |-> <<t>>]

\* __enter__ without the occupancy test: scopes nest.
enter_nested(ctx, t) ==
    [err |-> "", ctx |-> Append(ctx, t)]

\* BaseTable.__enter__
enter(ctx, t) ==
    IF Len(ctx) > 0
    THEN [err |-> "RuntimeError", ctx |-> ctx]
    ELSE [err |-> "", ctx |-> Append(ctx, t)]

\* t.__enter__()
EnterTable(t) ==
    LET r == enter(CURRENT_TABLE_CONTEXT, t) IN
    /\ CURRENT_TABLE_CONTEXT' = r.ctx
    /\ ret' = Return(r)
    /\ UNCHANGED <<tables, closed>>

Enter == \E t \in DOMAIN tables : EnterTable(t)

\* list.remove(x): drops the first occurrence of x.
Remove(s, x) ==
    LET i == CHOOSE k \in DOMAIN s : s[k] = x /\ \A j \in 1..(k - 1) : s[j] # x
    IN  SubSeq(s, 1, i - 1) \o SubSeq(s, i + 1, Len(s))

\* __exit__ that pops the context without testing who is leaving.
exit_unchecked(ctx, t) ==
    IF Len(ctx) = 0
    THEN [err |-> "IndexError", ctx |-> ctx]
    ELSE [err |-> "", ctx |-> SubSeq(ctx, 1, Len(ctx) - 1)]

\* BaseTable.__exit__
exit(ctx, t) ==
    IF t \notin {ctx[i] : i \in DOMAIN ctx}
    THEN [err |-> "RuntimeError", ctx |-> ctx]
    ELSE [err |-> "", ctx |-> Remove(ctx, t)]

\* t.__exit__(exc_type, exc_val, exc_tb)
ExitTable(t) ==
    LET r == exit(CURRENT_TABLE_CONTEXT, t) IN
    /\ CURRENT_TABLE_CONTEXT' = r.ctx
    /\ closed' = IF r.err = "" THEN closed \cup {t} ELSE closed
    /\ ret' = Return(r)
    /\ UNCHANGED tables

Exit == \E t \in DOMAIN tables : ExitTable(t)

\* RawField.__init__(pname): the exception it raises, if any, and the
\* tables it leaves behind.
RawField(ctx, tbls, pname) ==
    LET r == set_table(ctx, tbls, BaseField("RawField", pname))
    IN  IF r.err # "" THEN [err |-> r.err, key |-> pname, tables |-> r.tables]
        ELSE [err |-> "", key |-> "", tables |-> bind(r.tables, r.table, pname)]

\* RawField(pname)
CreateRaw(pname) ==
    LET r == RawField(CURRENT_TABLE_CONTEXT, tables, pname)
    IN  /\ UNCHANGED <<CURRENT_TABLE_CONTEXT, closed>>
        /\ r.tables = tables \/ NumFields(tables) < MaxFields
        /\ tables' = r.tables
        /\ ret' = Return(r)

NewRawField == \E pname \in Names : CreateRaw(pname)

\* self._expression = expression
set_expression(tbls, t, pname, expression) ==
    [tbls EXCEPT ![t]._fields[Index(tbls[t]._fields, pname)][2]._expression = expression]

\* self._sources = <the resolved set>
set_sources(tbls, t, pname, sources) ==
    [tbls EXCEPT ![t]._fields[Index(tbls[t]._fields, pname)][2] =
        [@ EXCEPT !.has_sources = TRUE, !._sources = sources]]

\* DerivedField.__init__(pname, expression): the exception it raises, if
\* any, and the tables it leaves behind.
DerivedField(ctx, tbls, pname, expression) ==
    LET r == set_table(ctx, tbls, BaseField("DerivedField", pname))
        bound == set_expression(bind(r.tables, r.table, pname), r.table, pname, expression)
        s == derived_sources(bound, r.table, expression)
    IN  IF r.err # "" THEN [err |-> r.err, key |-> pname, tables |-> r.tables]
        ELSE IF s.err # "" THEN [err |-> s.err, key |-> s.key, tables |-> bound]
        ELSE [err |-> "", key |-> "",
              tables |-> set_sources(bound, r.table, pname, s.val)]

\* DerivedField(pname, expression)
CreateDerived(pname, expression) ==
    LET r == DerivedField(CURRENT_TABLE_CONTEXT, tables, pname, expression)
    IN  /\ UNCHANGED <<CURRENT_TABLE_CONTEXT, closed>>
        /\ r.tables = tables \/ NumFields(tables) < MaxFields
        /\ tables' = r.tables
        /\ ret' = Return(r)

NewDerivedField ==
    \E pname \in Names, expression \in Expressions : CreateDerived(pname, expression)

\* table[key]
Lookup ==
    \E t \in DOMAIN tables, key \in Names :
        /\ ret' = Return(getitem(tables, t, key))
        /\ UNCHANGED <<CURRENT_TABLE_CONTEXT, tables, closed>>

\* table.get_source(key)
GetSource ==
    \E t \in DOMAIN tables, key \in Aliases :
        /\ tables[t].kind = "derived"
        /\ ret' = Return(get_source(tables, t, key))
        /\ UNCHANGED <<CURRENT_TABLE_CONTEXT, tables, closed>>

\* field.get_lineage()
GetLineage ==
    \E o \in AllFields(tables) :
        /\ ret' = Return(get_lineage(tables, o))
        /\ UNCHANGED <<CURRENT_TABLE_CONTEXT, tables, closed>>

Next ==
    \/ NewRawTable
    \/ NewDerivedTable
    \/ Enter
    \/ Exit
    \/ NewRawField
    \/ NewDerivedField
    \/ Lookup
    \/ GetSource
    \/ GetLineage

Spec == Init /\ [][Next]_vars

\* ------------------------------------------- derived tables of many sources
\* Callers that construct up to SrcMaxTables tables and hand DerivedTable a
\* list of up to SrcMaxSources of them, open and close scopes and look
\* sources up; they create no fields.
SrcMaxTables == 3
SrcMaxSources == 2

SrcLists(n) == UNION {[1..k -> 1..n] : k \in 0..SrcMaxSources}

\* DerivedTable.__init__(schema, pname, sources, from_expression, alias):
\* the exception it raises (it has no raise statement) and the new object.
DerivedTable(tbls, alias, srcs) ==
    [err |-> "", key |-> "",
     table |-> BaseTable("derived", alias, _process_sources(tbls, srcs))]

SrcRawTable ==
    \E alias \in Aliases :
        /\ Len(tables) < SrcMaxTables
        /\ tables' = Append(tables, BaseTable("raw", alias, <<>>))
        /\ ret' = Return(Ok(NoObjects))
        /\ UNCHANGED <<CURRENT_TABLE_CONTEXT, closed>>

SrcDerivedTable ==
    \E alias \in Aliases, srcs \in SrcLists(Len(tables)) :
        LET r == DerivedTable(tables, alias, srcs) IN
        /\ Len(tables) < SrcMaxTables
        /\ tables' = IF r.err = "" THEN Append(tables, r.table) ELSE tables
        /\ ret' = Return(r)
        /\ UNCHANGED <<CURRENT_TABLE_CONTEXT, closed>>

SrcNext ==
    \/ SrcRawTable
    \/ SrcDerivedTable
    \/ Enter
    \/ Exit
    \/ GetSource

SrcSpec == Init /\ [][SrcNext]_vars

\* ------------------------------------------------------- query compilation
\* Strings are sequences of tokens, and string concatenation is \o.
\* str(o) for an object a placeholder resolved to: BaseField.__str__ for a
\* field, the repr of a bound method (which embeds str(table)) otherwise.
str(tbls, o) ==
    IF o.type = "field"
    THEN <<tbls[Deref(tbls, o)._table]._alias, ".", Deref(tbls, o)._pname>>
    ELSE <<"<bound method BaseTable.describe of ", tbls[o.table]._alias, ">">>

\* expression.format(**context): every placeholder is looked up as
\* get_fields_from_expr looks it up and replaced by str() of what was found.
RECURSIVE format_from(_, _, _, _, _)
format_from(tbls, context, expression, i, acc) ==
    IF i > Len(expression)
    THEN [err |-> "", key |-> "", val |-> acc]
    ELSE LET r == get_field(tbls, context, expression[i])
         IN  IF r.err # ""
             THEN [err |-> r.err, key |-> r.key, val |-> <<>>]
             ELSE format_from(tbls, context, expression, i + 1,
                              acc \o str(tbls, CHOOSE x \in r.val : TRUE))

format(tbls, expression, context) == format_from(tbls, context, expression, 1, <<>>)

\* o.get_expression() for a registered field o.
get_expression(tbls, o) ==
    LET F == Deref(tbls, o) IN
    IF F.cls = "RawField"
    THEN [err |-> "", key |-> "", val |-> <<F._pname>>]
    ELSE IF tbls[F._table].kind = "raw"
    THEN [err |-> "UndefinedFieldException", key |-> "_sources", val |-> <<>>]
    ELSE LET e == format(tbls, F._expression, tbls[F._table]._sources)
         IN  IF e.err # "" THEN e
             ELSE [err |-> "", key |-> "", val |-> e.val \o <<" as ", F._pname>>]

\* statement.replace("\n", "\n" + indent * " ")
RECURSIVE replace(_, _)
replace(statement, indent) ==
    IF statement = <<>> THEN <<>>
    ELSE (IF Head(statement) = "\n"
          THEN <<"\n">> \o [k \in 1..indent |-> " "]
          ELSE <<Head(statement)>>) \o replace(Tail(statement), indent)

\* ",\n".join([f.get_expression() for f in self._fields.values()]); the
\* list comprehension ends at the first get_expression that raises.
RECURSIVE join_from(_, _, _, _)
join_from(tbls, t, i, acc) ==
    IF i > Len(tbls[t]._fields)
    THEN [err |-> "", key |-> "", val |-> acc]
    ELSE LET e == get_expression(tbls, FieldObj(t, i))
         IN  IF e.err # "" THEN e
             ELSE join_from(tbls, t, i + 1,
                            IF i = 1 THEN e.val ELSE acc \o <<",", "\n">> \o e.val)

\* DerivedTable.get_select(indent)
get_select(tbls, t, indent) ==
    LET j == join_from(tbls, t, 1, <<>>)
    IN  IF j.err # "" THEN j
        ELSE [err |-> "", key |-> "", val |-> replace(j.val, indent)]

\* DerivedTable.groupby(fields): self._groupby = set(fields)
groupby(tbls, t, fields) ==
    [err |-> "", key |-> "", tables |-> [tbls EXCEPT ![t]._groupby = fields]]

\* DerivedTable.get_groupby(): the physical names of the grouping keys; a
\* set has no fixed iteration order, so what is kept is the names.
get_groupby(tbls, t) ==
    [err |-> "", key |-> "",
     val |-> {Deref(tbls, o)._pname : o \in tbls[t]._groupby}]

\* Callers that also set grouping keys and compile the select list; the
\* history of exited scopes is not recorded for them.
MaxGroupby == 1
Indents == {0, 4}

\* t.__exit__(exc_type, exc_val, exc_tb)
QryExit ==
    \E t \in DOMAIN tables :
        LET r == exit(CURRENT_TABLE_CONTEXT, t) IN
        /\ CURRENT_TABLE_CONTEXT' = r.ctx
        /\ ret' = Return(r)
        /\ UNCHANGED <<tables, closed>>

\* t.groupby(fields), for any iterable of field objects
SetGroupby ==
    \E t \in DOMAIN tables, fields \in SUBSET AllFields(tables) :
        LET r == groupby(tables, t, fields) IN
        /\ Cardinality(fields) <= MaxGroupby
        /\ tables[t].kind = "derived"
        /\ tables' = r.tables
        /\ ret' = Return(r)
        /\ UNCHANGED <<CURRENT_TABLE_CONTEXT, closed>>

\* t.get_groupby()
GetGroupby ==
    \E t \in DOMAIN tables :
        /\ tables[t].kind = "derived"
        /\ ret' = Return(get_groupby(tables, t))
        /\ UNCHANGED <<CURRENT_TABLE_CONTEXT, tables, closed>>

\* t.get_select(indent)
GetSelect ==
    \E t \in DOMAIN tables, indent \in Indents :
        /\ tables[t].kind = "derived"
        /\ ret' = Return(get_select(tables, t, indent))
        /\ UNCHANGED <<CURRENT_TABLE_CONTEXT, tables, closed>>

QryNext ==
    \/ NewRawTable
    \/ NewDerivedTable
    \/ Enter
    \/ QryExit
    \/ NewRawField
    \/ NewDerivedField
    \/ SetGroupby
    \/ GetGroupby
    \/ GetSelect

QrySpec == Init /\ [][QryNext]_vars

\* ----------------------------------------------------- three-table pipelines
\* Callers that have constructed a pipeline of three tables, a raw table and
\* two derived tables each reading the one before it, under any aliases, and
\* then create at most LinMaxPerTable fields per table and ask for lineages.
LinMaxPerTable == 1

LinInit ==
    \E a1 \in Aliases, a2 \in Aliases, a3 \in Aliases :
        LET t1 == <<BaseTable("raw", a1, <<>>)>>
            t2 == Append(t1, DerivedTable(t1, a2, <<1>>).table)
            t3 == Append(t2, DerivedTable(t2, a3, <<2>>).table)
        IN  /\ tables = t3
            /\ CURRENT_TABLE_CONTEXT = <<>>
            /\ closed = {}
            /\ ret = Return(Ok(NoObjects))

LinRoom ==
    \A t \in DOMAIN tables :
        CURRENT_TABLE_CONTEXT = <<t>> => Len(tables[t]._fields) < LinMaxPerTable

\* RawField(pname)
LinRawField ==
    \E pname \in Names :
        LET r == RawField(CURRENT_TABLE_CONTEXT, tables, pname)
        IN  /\ UNCHANGED <<CURRENT_TABLE_CONTEXT, closed>>
            /\ r.tables = tables \/ LinRoom
            /\ tables' = r.tables
            /\ ret' = Return(r)

\* DerivedField(pname, expression)
LinDerivedField ==
    \E pname \in Names, expression \in Expressions :
        LET r == DerivedField(CURRENT_TABLE_CONTEXT, tables, pname, expression)
        IN  /\ UNCHANGED <<CURRENT_TABLE_CONTEXT, closed>>
            /\ r.tables = tables \/ LinRoom
            /\ tables' = r.tables
            /\ ret' = Return(r)

LinNext ==
    \/ Enter
    \/ QryExit
    \/ LinRawField
    \/ LinDerivedField
    \/ GetLineage

LinSpec == LinInit /\ [][LinNext]_vars

\* ------------------------------------------------------------------ claims
Occupied == Len(CURRENT_TABLE_CONTEXT) > 0
Occupant == CURRENT_TABLE_CONTEXT[1]

\* The constructor calls a caller can make in the current state, and what
\* each of them raises and leaves behind.
Constructions(pname) ==
    {RawField(CURRENT_TABLE_CONTEXT, tables, pname)}
      \cup {DerivedField(CURRENT_TABLE_CONTEXT, tables, pname, expression) :
              expression \in Expressions}

\* C1: creating a second field named N while table T's scope is open raises
\* DuplicatedFieldException carrying T and the rejected field object, and
\* leaves T's field mapping as it was, so T[N] is still the first field.
C1_DuplicateFieldRejected ==
    \A N \in Names :
        (Occupied /\ N \in Keys(tables[Occupant]._fields))
        => LET T == Occupant
               first == FieldObj(T, Index(tables[T]._fields, N))
           IN  /\ \A cls \in {"RawField", "DerivedField"} :
                    LET rejected == BaseField(cls, N)
                        e == set_table(CURRENT_TABLE_CONTEXT, tables, rejected)
                    IN  /\ e.err = "DuplicatedFieldException"
                        /\ e.table = T
                        /\ e.field = rejected
                        /\ e.field # Deref(tables, first)
               /\ \A r \in Constructions(N) :
                    /\ r.err = "DuplicatedFieldException"
                    /\ r.tables = tables
                    /\ getitem(r.tables, T, N) = Ok({first})
                    /\ Deref(r.tables, first) = Deref(tables, first)

C1_Witness ==
    /\ ret = "DuplicatedFieldException"
    /\ Occupied
    /\ Len(tables[Occupant]._fields) >= 1

\* C2: creating a source or derived field while the builder context is empty
\* raises NoTableContextSetException and changes neither any table's field
\* mapping nor the builder context (a constructor has no access to the
\* context but through set_table, which only reads it).
C2_NoScopeOpen ==
    /\ [](\A N \in Names :
            ~Occupied
            => \A r \in Constructions(N) :
                  /\ r.err = "NoTableContextSetException"
                  /\ r.tables = tables)
    /\ [][ret' = "NoTableContextSetException"
            => /\ CURRENT_TABLE_CONTEXT = <<>>
               /\ UNCHANGED <<CURRENT_TABLE_CONTEXT, tables>>]_vars

C2_Witness ==
    /\ ret = "NoTableContextSetException"
    /\ CURRENT_TABLE_CONTEXT = <<>>
    /\ Len(tables) >= 1

\* C3: the builder context never holds more than one table; entering a scope
\* while the context is occupied, by the same or another table, raises
\* RuntimeError and leaves the context unchanged.
C3_AtMostOneScope ==
    /\ Len(CURRENT_TABLE_CONTEXT) <= 1
    /\ \A t \in DOMAIN tables :
         Occupied
         => /\ enter(CURRENT_TABLE_CONTEXT, t).err = "RuntimeError"
            /\ enter(CURRENT_TABLE_CONTEXT, t).ctx = CURRENT_TABLE_CONTEXT

\* With a single table in existence __exit__ of the occupant cannot fail, so
\* the RuntimeError is the one __enter__ raised on re-entry.
C3_Witness ==
    /\ ret = "RuntimeError"
    /\ Len(tables) = 1
    /\ CURRENT_TABLE_CONTEXT = <<1>>

\* C4: __exit__ of a table that is not the occupant of the builder context
\* (an empty context included) raises RuntimeError and leaves the context
\* unchanged; __exit__ of the occupant empties the context.
C4_ExitOnlyByOccupant ==
    \A t \in DOMAIN tables :
        IF Occupied /\ Occupant = t
        THEN exit(CURRENT_TABLE_CONTEXT, t) = [err |-> "", ctx |-> <<>>]
        ELSE exit(CURRENT_TABLE_CONTEXT, t)
               = [err |-> "RuntimeError", ctx |-> CURRENT_TABLE_CONTEXT]

\* __enter__ cannot fail on an empty context, so the RuntimeError is the one
\* __exit__ raised for a table that does not occupy it.
C4_Witness ==
    /\ ret = "RuntimeError"
    /\ CURRENT_TABLE_CONTEXT = <<>>
    /\ Len(tables) >= 1

\* C5: a field created while T occupies the context has owner T, is
\* registered in T under its physical name and is what T[name] returns, in
\* the state after its creation and in every later one; T[name] for a name
\* never registered on T raises UndefinedFieldException.
RegisteredHere(t) ==
    \A i \in DOMAIN tables[t]._fields :
        LET key == tables[t]._fields[i][1]
            F == tables[t]._fields[i][2]
        IN  /\ F._table = t
            /\ key = F._pname
            /\ getitem(tables, t, F._pname) = Ok({FieldObj(t, i)})

CreatedInOccupant(pname) ==
    \A r \in Constructions(pname) :
        r.err = ""
        => /\ Occupied
           /\ LET T == Occupant
                  F == FieldObj(T, Len(tables[T]._fields) + 1)
              IN  /\ getitem(r.tables, T, pname) = Ok({F})
                  /\ Deref(r.tables, F)._table = T
                  /\ Deref(r.tables, F)._pname = pname

StaysRegistered ==
    \A t \in DOMAIN tables :
        /\ t \in DOMAIN tables'
        /\ \A i \in DOMAIN tables[t]._fields :
              /\ i \in DOMAIN tables'[t]._fields
              /\ tables'[t]._fields[i] = tables[t]._fields[i]

C5_RoundTripLookup ==
    /\ [](/\ \A t \in DOMAIN tables :
               /\ RegisteredHere(t)
               /\ \A N \in Names \ Keys(tables[t]._fields) :
                     getitem(tables, t, N) = Raise("UndefinedFieldException", N)
          /\ \A N \in Names : CreatedInOccupant(N))
    /\ [][StaysRegistered]_vars

\* Two fields live in one table and a second table was constructed afterwards.
C5_Witness ==
    /\ Len(tables) = 2
    /\ Len(tables[1]._fields) = 2
    /\ CURRENT_TABLE_CONTEXT = <<>>
    /\ ret = ""

\* C6 as stated: once a table's scope has been exited, the table is never in
\* the builder context again and its field mapping never changes.
C6_ClosedTableIsFrozen ==
    [][\A t \in closed :
         /\ t \notin {CURRENT_TABLE_CONTEXT'[i] : i \in DOMAIN CURRENT_TABLE_CONTEXT'}
         /\ tables'[t]._fields = tables[t]._fields]_vars

\* C6 amended: a table's field mapping changes only in a call made while that
\* table is the occupant of the builder context, and then only by gaining one
\* entry at the end; __enter__ on an empty context succeeds for every table,
\* one whose scope was exited before included.
C6_FieldsChangeOnlyInScope ==
    [][/\ \A t \in DOMAIN tables :
            tables'[t]._fields # tables[t]._fields
            => /\ CURRENT_TABLE_CONTEXT = <<t>>
               /\ CURRENT_TABLE_CONTEXT' = <<t>>
               /\ Len(tables'[t]._fields) = Len(tables[t]._fields) + 1
               /\ SubSeq(tables'[t]._fields, 1, Len(tables[t]._fields))
                    = tables[t]._fields
       /\ \A t \in DOMAIN tables :
            (EnterTable(t) /\ ~Occupied)
            => ret' = "" /\ CURRENT_TABLE_CONTEXT' = <<t>>]_vars

\* A table whose scope was exited is the occupant again and has just been
\* given a field.
C6_Witness ==
    \E t \in closed :
        /\ CURRENT_TABLE_CONTEXT = <<t>>
        /\ Len(tables[t]._fields) >= 1
        /\ ret = ""

\* C7 as stated: get_lineage and get_sources of a source field are the field
\* itself; get_lineage of a derived field returns the union of get_lineage
\* over its direct sources.
C7_LineageIsUnionOverSources ==
    \A o \in AllFields(tables) :
        IF Deref(tables, o).cls = "RawField"
        THEN /\ get_lineage(tables, o) = Ok({o})
             /\ get_sources(tables, o) = Ok({o})
        ELSE /\ get_sources(tables, o).err = ""
             /\ \A F \in get_sources(tables, o).val : get_lineage(tables, F).err = ""
             /\ get_lineage(tables, o) =
                  Ok(UNION {get_lineage(tables, F).val : F \in get_sources(tables, o).val})

\* C8 as stated: the direct sources of a derived field of a derived table T
\* are exactly the fields found by looking every placeholder's alias up in
\* T's sources and its field name up on that table, so each of them is a
\* field of a table registered as a source of T.
LookedUp(t, ph) ==
    LET s == get_source(tables, t, ph[1])
    IN  IF s.err # "" THEN s
        ELSE getitem(tables, CHOOSE x \in s.val : TRUE, ph[2])

C8_SourcesAreTheLookedUpFields ==
    \A o \in AllFields(tables) :
        LET D == Deref(tables, o)
            T == D._table
        IN  (D.cls = "DerivedField" /\ D.has_sources /\ tables[T].kind = "derived")
            => /\ \A i \in DOMAIN D._expression : LookedUp(T, D._expression[i]).err = ""
               /\ D._sources =
                    UNION {LookedUp(T, D._expression[i]).val : i \in DOMAIN D._expression}
               /\ \A F \in D._sources :
                    /\ F.type = "field"
                    /\ F.table \in {tables[T]._sources[a] : a \in DOMAIN tables[T]._sources}

\* C9 as stated: resolving an expression that names an alias absent from the
\* sources mapping raises UnregisteredSourceException for that alias, the
\* exception get_source raises for it.
C9_AbsentAliasIsUnregisteredSource ==
    \A t \in DOMAIN tables : \A ph \in Placeholders :
        (tables[t].kind = "derived" /\ ph[1] \notin DOMAIN tables[t]._sources)
        => /\ get_source(tables, t, ph[1]) = Raise("UnregisteredSourceException", ph[1])
           /\ get_fields_from_expr(tables, <<ph>>, tables[t]._sources).err
                = get_source(tables, t, ph[1]).err
           /\ get_fields_from_expr(tables, <<ph>>, tables[t]._sources).key = ph[1]

\* C10 as stated: a DerivedField call that fails because its expression
\* cannot be resolved leaves every table's field mapping as it was, so every
\* registered derived field has a resolved set of direct sources.
C10_FailedCreationRegistersNothing ==
    [][\A N \in Names : \A expression \in Expressions :
         (ret' \in {"KeyError", "UndefinedFieldException"}
            /\ CreateDerived(N, expression))
         => tables' = tables]_vars

\* C11 as stated: DerivedTable given a sources list in which two tables share
\* an alias raises DuplicateAlias; a DerivedTable call that returns normally
\* yields a table whose get_source finds each listed table under that
\* table's own alias.
SharedAlias(srcs) ==
    \E i, j \in DOMAIN srcs :
        /\ srcs[i] # srcs[j]
        /\ tables[srcs[i]]._alias = tables[srcs[j]]._alias

C11_SharedAliasRejected ==
    \A alias \in Aliases : \A srcs \in SrcLists(Len(tables)) :
        LET r == DerivedTable(tables, alias, srcs)
            after == Append(tables, r.table)
        IN  /\ SharedAlias(srcs) => r.err = "DuplicateAlias"
            /\ r.err = ""
               => \A i \in DOMAIN srcs :
                    get_source(after, Len(after), tables[srcs[i]]._alias)
                      = Ok({srcs[i]})

\* C12 as stated: every element of a derived table's grouping-key set is a
\* field owned by that same table, whatever groupby calls were made.
C12_GroupbyFieldsOwned ==
    \A t \in DOMAIN tables :
        tables[t].kind = "derived"
        => \A o \in tables[t]._groupby :
              /\ o.type = "field"
              /\ o.table = t
              /\ Deref(tables, o)._table = t

\* C13 as stated: get_select of a derived table returns the get_expression
\* of the fields whose creation succeeded, joined in the order of their
\* creation; a creation that fails contributes nothing and a creation that
\* fails with DuplicatedFieldException leaves the select list as it was.
Succeeded(F) == F.cls = "RawField" \/ F.has_sources

RECURSIVE CreatedExpressions(_, _)
CreatedExpressions(t, i) ==
    IF i = 0 THEN <<>>
    ELSE IF Succeeded(tables[t]._fields[i][2])
         THEN Append(CreatedExpressions(t, i - 1),
                     get_expression(tables, FieldObj(t, i)))
         ELSE CreatedExpressions(t, i - 1)

RECURSIVE Joined(_)
Joined(es) ==
    IF es = <<>> THEN <<>>
    ELSE IF Len(es) = 1 THEN es[1].val
    ELSE es[1].val \o <<",", "\n">> \o Joined(Tail(es))

C13_SelectListsCreatedFields ==
    /\ \A t \in DOMAIN tables :
         tables[t].kind = "derived"
         => LET es == CreatedExpressions(t, Len(tables[t]._fields))
                s == get_select(tables, t, 0)
            IN  /\ \A k \in DOMAIN es : es[k].err = ""
                /\ s.err = ""
                /\ s.val = Joined(es)
    /\ \A N \in Names :
         (Occupied /\ tables[Occupant].kind = "derived"
            /\ N \in Keys(tables[Occupant]._fields))
         => \A r \in Constructions(N) :
              /\ r.err = "DuplicatedFieldException"
              /\ get_select(r.tables, Occupant, 0) = get_select(tables, Occupant, 0)

\* C14: the direct-source relation is acyclic: every table's sources were
\* constructed before it, every direct source of a field lives in a table
\* constructed before the field's own table (so never in its own table), and
\* no field reaches itself.  get_lineage therefore ends on every field: it
\* raises AttributeError exactly when the field, or something it reaches, is
\* a half-constructed derived field or is not a field, and otherwise returns
\* a set of source fields only, namely the source fields the field reaches.
DirectSources(o) ==
    IF o.type = "field" THEN Deref(tables, o)._sources ELSE {}

\* What S reaches in at most n further steps, computed by iteration so that
\* it is defined on a cyclic relation too.
RECURSIVE Reached(_, _)
Reached(S, n) ==
    IF n = 0 THEN S
    ELSE Reached(S \cup UNION {DirectSources(x) : x \in S}, n - 1)

Closure(o) == Reached(DirectSources(o), NumFields(tables))

Unfinished(o) ==
    \/ o.type # "field"
    \/ Deref(tables, o).cls = "DerivedField" /\ ~Deref(tables, o).has_sources

IsSourceField(o) == o.type = "field" /\ Deref(tables, o).cls = "RawField"

C14_LineageTerminates ==
    /\ \A t \in DOMAIN tables : \A a \in DOMAIN tables[t]._sources :
          tables[t]._sources[a] < t
    /\ \A o \in AllFields(tables) :
          /\ \A s \in DirectSources(o) : s.table < o.table
          /\ o \notin Closure(o)
          /\ LET l == get_lineage(tables, o) IN
             IF Unfinished(o) \/ \E x \in Closure(o) : Unfinished(x)
             THEN l.err = "AttributeError"
             ELSE /\ l.err = ""
                  /\ \A x \in l.val : IsSourceField(x)
                  /\ l.val = {x \in Closure(o) \cup {o} : IsSourceField(x)}

\* A derived field of the third table whose source is a derived field of
\* the second, whose source is a source field of the first.
C14_Witness ==
    /\ ret = ""
    /\ \E o \in AllFields(tables) : \E s \in DirectSources(o) : \E r \in DirectSources(s) :
          /\ o.table = 3 /\ s.table = 2 /\ r.table = 1
          /\ IsSourceField(r)
          /\ get_lineage(tables, o) = Ok({r})

====
